---------------------------- MODULE Spec2Model ----------------------------
(***************************************************************************)
(* Model of the rendering kernel of srt (simple ray tracer):               *)
(*   vector.c  : vector_sub, vector_length, vector_normal, vector_dot      *)
(*   sphere.c  : sphere_intersect, sphere_get_color                        *)
(*   render.c  : render_scene                                              *)
(*                                                                         *)
(* Arithmetic.  The C code computes in IEEE-754 binary floating point      *)
(* (float, with double intermediates where C promotes).  The model keeps   *)
(* that arithmetic, at a reduced width: a finite value is a pair <<m, e>>  *)
(* standing for m * 2^e (m odd, or <<0,0>> for zero), every operation      *)
(* computes the exact result and rounds it to nearest, ties to even, to    *)
(* FloatP significant bits (float) or DoubleP significant bits (double),   *)
(* with gradual underflow below 2^FloatEmin / 2^DoubleEmin.  Overflow to   *)
(* infinity is not modelled (the inputs are bounded far below it).  The    *)
(* same algorithms, run at 24 and 53 bits, reproduce the compiled code's   *)
(* results bit for bit.                                                    *)
(***************************************************************************)
EXTENDS Integers, Sequences, FiniteSets, TLC

(***************************************************************************)
(* Floating-point formats                                                  *)
(***************************************************************************)
FloatP     == 8      \* significant bits of `float'  (IEEE binary32: 24)
FloatEmin  == -24    \* exponent of the smallest positive float (binary32: -149)
DoubleP    == 2 * FloatP + 5      \* significant bits of `double' (53 = 2*24+5)
DoubleEmin == 4 * FloatEmin       \* exponent of the smallest positive double

Abs(n) == IF n < 0 THEN -n ELSE n
Sgn(n) == IF n < 0 THEN -1 ELSE IF n > 0 THEN 1 ELSE 0
Max(a, b) == IF a >= b THEN a ELSE b
Min(a, b) == IF a <= b THEN a ELSE b

RECURSIVE BitLen(_)
BitLen(n) == IF n = 0 THEN 0 ELSE 1 + BitLen(n \div 2)

RECURSIVE Canon(_, _)
\* the canonical pair of m * 2^e: trailing zero bits move into the exponent
Canon(m, e) ==
  IF m = 0 THEN <<0, 0>>
  ELSE IF m % 2 = 0 THEN Canon(m \div 2, e + 1) ELSE <<m, e>>

Zero == <<0, 0>>
One  == <<1, 0>>

\* RN: a * 2^e (a >= 0; plus a non-zero part below its last bit when sticky)
\* rounded to p significant bits, nearest-even, no finer than 2^emin
RoundMag(p, emin, a, e, sticky) ==
  IF a = 0 THEN Zero
  ELSE LET L == Max(e + BitLen(a) - p, emin)
       IN  IF L <= e THEN Canon(a, e)
           ELSE IF L - e > BitLen(a) + 1 THEN Zero    \* below half of 2^emin
           ELSE LET sh   == L - e
                    q    == a \div (2 ^ sh)
                    rem  == a % (2 ^ sh)
                    half == 2 ^ (sh - 1)
                    up   == rem > half \/ (rem = half /\ (sticky \/ q % 2 = 1))
                IN  Canon(IF up THEN q + 1 ELSE q, L)

FNeg(a) == <<-a[1], a[2]>>

Round(p, emin, m, e, sticky) ==
  IF m < 0 THEN FNeg(RoundMag(p, emin, -m, e, sticky))
  ELSE RoundMag(p, emin, m, e, sticky)

\* conversion double -> float, int -> float
ToFloat(a)   == Round(FloatP, FloatEmin, a[1], a[2], FALSE)
FromInt(n)   == Round(FloatP, FloatEmin, n, 0, FALSE)
IntToDouble(n) == Round(DoubleP, DoubleEmin, n, 0, FALSE)

\* exponent just above the leading bit: |a| < 2^Top(a)
Top(a) == a[2] + BitLen(Abs(a[1]))

\* a + b rounded to p bits.  The operand of smaller magnitude is cut at
\* three guard bits below the last kept bit of the larger one, the part cut
\* off being remembered as a sticky bit, as a hardware adder does.
AddP(p, emin, a, b) ==
  IF a[1] = 0 THEN Round(p, emin, b[1], b[2], FALSE)
  ELSE IF b[1] = 0 THEN Round(p, emin, a[1], a[2], FALSE)
  ELSE LET big   == IF Top(a) >= Top(b) THEN a ELSE b
           small == IF Top(a) >= Top(b) THEN b ELSE a
           L     == Min(Top(big) - p - 3, big[2])
           Mb    == Abs(big[1]) * 2 ^ (big[2] - L)
           cut   == IF small[2] < L THEN L - small[2] ELSE 0
           gone  == cut > BitLen(Abs(small[1]))    \* wholly below the guard bits
           Ms    == IF gone THEN 0
                    ELSE IF small[2] < L THEN Abs(small[1]) \div (2 ^ cut)
                    ELSE Abs(small[1]) * 2 ^ (small[2] - L)
           st    == gone \/ ((small[2] < L) /\ (Abs(small[1]) % (2 ^ cut) # 0))
           same  == Sgn(big[1]) = Sgn(small[1])
           T     == IF same THEN Mb + Ms ELSE Mb - Ms
           N     == IF st THEN (IF same THEN 2 * T + 1 ELSE 2 * T - 1) ELSE 2 * T
           \* |big| = |small| with opposite signs gives T = 0
       IN  IF N >= 0 THEN Round(p, emin, Sgn(big[1]) * N, L - 1, FALSE)
           ELSE Round(p, emin, Sgn(small[1]) * (-N), L - 1, FALSE)

FAdd(a, b) == AddP(FloatP, FloatEmin, a, b)
FSub(a, b) == AddP(FloatP, FloatEmin, a, FNeg(b))
DSub(a, b) == AddP(DoubleP, DoubleEmin, a, FNeg(b))

MulP(p, emin, a, b) == Round(p, emin, a[1] * b[1], a[2] + b[2], FALSE)
FMul(a, b) == MulP(FloatP, FloatEmin, a, b)
DMul(a, b) == MulP(DoubleP, DoubleEmin, a, b)

\* a / b rounded to p bits (b # 0): p+2 quotient bits and a sticky remainder
DivP(p, emin, a, b) ==
  IF a[1] = 0 THEN Zero
  ELSE LET A  == Abs(a[1])
           B  == Abs(b[1])
           k  == Max(0, p + 2 + BitLen(B) - BitLen(A))
           q  == (A * 2 ^ k) \div B
           r  == (A * 2 ^ k) % B
           sg == Sgn(a[1]) * Sgn(b[1])
       IN  Round(p, emin, sg * (2 * q + (IF r # 0 THEN 1 ELSE 0)),
                 a[2] - b[2] - k - 1, FALSE)

FDiv(a, b) == DivP(FloatP, FloatEmin, a, b)
DDiv(a, b) == DivP(DoubleP, DoubleEmin, a, b)

\* digit-by-digit square root: <<s, r>> with n = s*s + r, 0 <= r <= 2s
RECURSIVE SqrtRem(_)
SqrtRem(n) ==
  IF n = 0 THEN <<0, 0>>
  ELSE LET h  == SqrtRem(n \div 4)
           s2 == 2 * h[1]
           r2 == 4 * h[2] + (n % 4)
       IN  IF r2 >= 2 * s2 + 1 THEN <<s2 + 1, r2 - 2 * s2 - 1>> ELSE <<s2, r2>>

RECURSIVE SqrtExt(_, _)
\* j more result bits of the same square root (radicand times 4^j)
SqrtExt(h, j) ==
  IF j = 0 THEN h
  ELSE LET s2 == 2 * h[1]
           r2 == 4 * h[2]
       IN  SqrtExt(IF r2 >= 2 * s2 + 1 THEN <<s2 + 1, r2 - 2 * s2 - 1>>
                                      ELSE <<s2, r2>>, j - 1)

\* sqrt(a) rounded to double (a >= 0), as libm's sqrt()
DSqrt(a) ==
  IF a[1] <= 0 THEN Zero
  ELSE LET odd == a[2] % 2 # 0
           m   == IF odd THEN 2 * a[1] ELSE a[1]
           e   == IF odd THEN a[2] - 1 ELSE a[2]
           j   == Max(0, DoubleP + 2 - ((BitLen(m) + 1) \div 2))
           h   == SqrtExt(SqrtRem(m), j)
       IN  Round(DoubleP, DoubleEmin, 2 * h[1] + (IF h[2] # 0 THEN 1 ELSE 0),
                 (e \div 2) - j - 1, FALSE)

\* a < b
FLt(a, b) == AddP(DoubleP, DoubleEmin, a, FNeg(b))[1] < 0


(***************************************************************************)
(* vector.c                                                                *)
(***************************************************************************)
\* vector_t: a record of three floats
Vec(x, y, z) == [x |-> x, y |-> y, z |-> z]

vector_sub(v1, v2) ==
  Vec(FSub(v1.x, v2.x), FSub(v1.y, v2.y), FSub(v1.z, v2.z))

\* sqrt() takes and returns double; the return statement converts to float
vector_length(v) ==
  ToFloat(DSqrt(FAdd(FAdd(FMul(v.x, v.x), FMul(v.y, v.y)), FMul(v.z, v.z))))

\* if (len == 0.0f) len = 1.0f;
NormalDivisor(len) == IF len = Zero THEN One ELSE len

\* v->x /= len; v->y /= len; v->z /= len;
NormalDivide(v, len) == Vec(FDiv(v.x, len), FDiv(v.y, len), FDiv(v.z, len))

vector_normal(v) == NormalDivide(v, NormalDivisor(vector_length(v)))

vector_dot(v1, v2) ==
  FAdd(FAdd(FMul(v1.x, v2.x), FMul(v1.y, v2.y)), FMul(v1.z, v2.z))

(***************************************************************************)
(* sphere.c                                                                *)
(***************************************************************************)
\* sphere_t: [center : vector_t, radius : float, r, g, b : int]
\* ray_t:    [origin : vector_t, dir : vector_t]

\* IntersectRoot with the far root, v + sqrt(d2)
IntersectRoot_Far(v, d2) ==
  IF FLt(d2, Zero) THEN Zero ELSE ToFloat(AddP(DoubleP, DoubleEmin, v, DSqrt(d2)))

\* IntersectRoot without the test of d2, the root taken of its magnitude
IntersectRoot_NoMissTest(v, d2) ==
  ToFloat(DSub(v, DSqrt(<<Abs(d2[1]), d2[2]>>)))

\* if (d2 < 0) return 0.0;  return v - sqrt(d2);  the difference is a double
IntersectRoot(v, d2) ==
  IF FLt(d2, Zero) THEN Zero ELSE ToFloat(DSub(v, DSqrt(d2)))

\* IntersectDisc without the test of v
IntersectDisc_NoGuard(radius, c, v) ==
  IntersectRoot(v, FAdd(FSub(FMul(radius, radius), FMul(c, c)), FMul(v, v)))

\* if (v < 0) return 0.0;  d2 = r*r - c*c + v*v;
IntersectDisc(radius, c, v) ==
  IF FLt(v, Zero) THEN Zero
  ELSE IntersectRoot(v, FAdd(FSub(FMul(radius, radius), FMul(c, c)), FMul(v, v)))

\* c = vector_length (&oe);  v = vector_dot (&oe, &ray->dir);
IntersectOE(radius, oe, dir) ==
  IntersectDisc(radius, vector_length(oe), vector_dot(oe, dir))

\* vector_sub (&oe, &sphere->center, &ray->origin);
sphere_intersect(sphere, ray) ==
  IntersectOE(sphere.radius, vector_sub(sphere.center, ray.origin), ray.dir)

\* sphere_get_color handing out blue, green, red
sphere_get_color_BGR(sphere) == <<sphere.b, sphere.g, sphere.r>>

sphere_get_color(sphere) == <<sphere.r, sphere.g, sphere.b>>

(***************************************************************************)
(* render.c                                                                *)
(***************************************************************************)
\* const float fov_x = 3.14 / 4.0, i.e. 0.785 rounded to float
fov_x == <<201, -8>>

\* libm's tan() on the arguments render_scene passes it (fov_x, and fov_y
\* for the image shapes of the model and for 640x480): argument :> result,
\* a float argument and the double nearest to its tangent
TanTable ==
     <<201, -10>> :> <<834035, -22>> @@
     <<67, -8>> :> <<561749, -21>> @@
     <<201, -9>> :> <<1736743, -22>> @@
     <<67, -7>> :> <<302585, -19>> @@
     <<151, -8>> :> <<1403685, -21>> @@
     <<201, -8>> :> <<1048069, -20>> @@
     <<67, -6>> :> <<1814835, -20>> @@
     <<151, -7>> :> <<635729, -18>> @@
     <<201, -7>> :> <<529115, -8>> @@
     <<151, -6>> :> <<-1041927, -20>> @@
     <<201, -6>> :> <<-2078021, -31>>

tan(a) == TanTable[a]

aspect_ratio(screen_width, screen_height) ==
  FDiv(FromInt(screen_height), FromInt(screen_width))

fov_y(screen_width, screen_height) ==
  FMul(fov_x, aspect_ratio(screen_width, screen_height))

\* float min_dist = 100000
MinDistInit == FromInt(100000)

\* the direction of the ray through pixel (x, y), normalized
RayDir(x, y, screen_width, screen_height) ==
  vector_normal(Vec(
    ToFloat(DDiv(DMul(tan(fov_x), IntToDouble(2 * x - screen_width)),
                 IntToDouble(screen_width))),
    ToFloat(DDiv(DMul(tan(fov_y(screen_width, screen_height)),
                      IntToDouble(2 * y - screen_height)),
                 IntToDouble(screen_height))),
    FromInt(-1)))

\* the distances sphere_intersect returns for the spheres of the list
Dists(ray, sphere_list) ==
  [i \in 1..Len(sphere_list) |-> sphere_intersect(sphere_list[i], ray)]

RECURSIVE Closest_AnyHit(_, _, _, _)
\* the sphere loop without the comparison with min_dist
Closest_AnyHit(dists, i, closest_sphere, min_dist) ==
  IF i > Len(dists) THEN <<closest_sphere, min_dist>>
  ELSE IF FLt(Zero, dists[i])
       THEN Closest_AnyHit(dists, i + 1, i, dists[i])
       ELSE Closest_AnyHit(dists, i + 1, closest_sphere, min_dist)

RECURSIVE Closest(_, _, _, _)
\* the sphere loop from list position i on: <<closest_sphere, min_dist>>
\* (list positions count from 1; 0 stands for the code's -1, no sphere)
Closest(dists, i, closest_sphere, min_dist) ==
  IF i > Len(dists) THEN <<closest_sphere, min_dist>>
  ELSE IF FLt(Zero, dists[i]) /\ FLt(dists[i], min_dist)
       THEN Closest(dists, i + 1, i, dists[i])
       ELSE Closest(dists, i + 1, closest_sphere, min_dist)

\* int -> uint8_t on assignment to image[]
ToByte(n) == n % 256


(***************************************************************************)
(* The inputs the model draws                                              *)
(***************************************************************************)
MaxWidth   == 2     \* screen_width  ranges over 1..MaxWidth
MaxHeight  == 2     \* screen_height ranges over 1..MaxHeight
MaxSpheres == 2     \* num_spheres   ranges over 0..MaxSpheres
MaxShort   == 3     \* image_sz is at most this much below width*height*3
MaxExtra   == 1     \* image_sz is at most this much above width*height*3

IVec(a, b, c) == Vec(FromInt(a), FromInt(b), FromInt(c))

Sphere(cx, cy, cz, rad, r, g, b) ==
  [center |-> IVec(cx, cy, cz), radius |-> FromInt(rad), r |-> r, g |-> g, b |-> b]

\* the spheres a scene is made of: scene_init's first sphere; one behind it on
\* the same ray; one at the same place in another colour; a huge one farther
\* away than 100000, the same in another colour, and one farther still; one
\* around the camera; one towards the corner of pixel (0, 0)
SphereCatalogue ==
  { Sphere(0, 0, -600, 100, 255, 0, 0),
    Sphere(0, 0, -900, 100, 0, 255, 0),
    Sphere(0, 0, -600, 100, 0, 0, 255),
    Sphere(0, 0, -200000, 50000, 255, 255, 0),
    Sphere(0, 0, -200000, 50000, 0, 128, 255),
    Sphere(0, 0, -400000, 50000, 128, 128, 128),
    Sphere(0, 0, -50, 100, 255, 0, 255),
    Sphere(-600, -600, -600, 200, 0, 255, 255) }

\* the scene scene_init sets up
DefaultScene ==
  << Sphere(0, 0, -600, 100, 255, 0, 0),
     Sphere(-200, 0, -900, 100, 0, 255, 0),
     Sphere(200, 0, -900, 100, 0, 0, 255) >>

\* the first sphere of scene_init alone
SingleRed == << Sphere(0, 0, -600, 100, 255, 0, 0) >>

Scenes ==
  UNION { [1..n -> SphereCatalogue] : n \in 0..MaxSpheres } \cup {DefaultScene}

\* camera_t: [pos : vector_t, fov : float]; scene_init puts it at the origin
Cameras == { [pos |-> IVec(0, 0, 0), fov |-> fov_x] }

\* values of cam->fov: the zero of the static scene, and the renderer's own
Fovs == {Zero, fov_x}

\* what the buffer holds before a call
GarbageBytes == {0, 170}

\* the integers the coordinates of a directly called sphere_intersect are
\* drawn from, and the radii besides the one just above the distance
CallCoords == {-74, 0, 37}
CallOrigins == { IVec(0, 0, 0), IVec(37, 0, 0) }
CallRadii == { <<1, -6>>, One, FromInt(100) }

\* the float just above a >= 0
FNextUp(a) ==
  IF a[1] = 0 THEN <<1, FloatEmin>>
  ELSE Canon(a[1] * 2 ^ (a[2] - Max(a[2] - (FloatP - BitLen(a[1])), FloatEmin)) + 1,
             Max(a[2] - (FloatP - BitLen(a[1])), FloatEmin))

\* the directions of a directly called sphere_intersect: the 26 directions of
\* the unit cube, normalized
DirSeeds == { v \in {-1, 0, 1} \X {-1, 0, 1} \X {-1, 0, 1} : v # <<0, 0, 0>> }
CallDirs == { vector_normal(IVec(v[1], v[2], v[3])) : v \in DirSeeds }

\* the components of a directly normalized vector
NormalComps == { Zero, One, FromInt(-1), FromInt(3), FromInt(-7), FromInt(100),
                 <<1, -10>>, <<1, -14>> }

ImageSizes(w, h) ==
  { n \in (w * h * 3 - MaxShort)..(w * h * 3 + MaxExtra) : n >= 0 }

(***************************************************************************)
(* State                                                                   *)
(***************************************************************************)
VARIABLES
  pc,             \* "idle", "clear", "loop", "done", "crashed", "called"
  cam, sphere_list, screen_width, screen_height, image_sz,
                  \* the arguments of the render_scene call in progress
  image,          \* the buffer: [0..image_sz-1 -> 0..255]
  before,         \* the buffer as the caller handed it over
  given,          \* the camera and the spheres as the caller handed them over
  alloc,          \* the size of the block the output module's image points
                  \* to, -1 while it is NULL
  output_render_cb, \* the output callback: "NULL" or "cb"
  content,        \* what the block image points to holds: "none" (no block),
                  \* "uninitialised", "rendered", "partial" (a render that
                  \* returned 1), "swapped" (rendered, red and blue exchanged)
  sink,           \* what the blocks handed to the output callback held,
                  \* oldest first
  edits,          \* the scene edits made so far, oldest first
  oob,            \* <<index, byte>> stored at an index >= image_sz
  x, y,           \* loop variables
  image_ofs,      \* offset of the next pixel
  result,         \* value returned (-1: none yet)
  log,            \* per pixel visited: its offset, the direction of its
                  \* ray, the distances sphere_intersect returned,
                  \* closest_sphere and min_dist
  prev,           \* <<[image, result]>> of the preceding call with the same
                  \* arguments, << >> if there was none
  call            \* a direct call of a library function and what it returned

vars == <<pc, cam, sphere_list, screen_width, screen_height, image_sz, image,
          before, given, alloc, output_render_cb, content, sink, edits, oob, x, y, image_ofs, result, log, prev,
          call>>

args == <<cam, sphere_list, screen_width, screen_height, image_sz>>

NoCall == [fn |-> "none"]

Init ==
  /\ pc = "idle"
  /\ cam = [pos |-> IVec(0, 0, 0), fov |-> fov_x]
  /\ sphere_list = << >>
  /\ screen_width = 1
  /\ screen_height = 1
  /\ image_sz = 0
  /\ image = [i \in {} |-> 0]
  /\ before = [i \in {} |-> 0]
  /\ given = [cam |-> cam, sphere_list |-> sphere_list]
  /\ alloc = -1
  /\ output_render_cb = "NULL"
  /\ content = "none"
  /\ sink = << >>
  /\ edits = << >>
  /\ oob = {}
  /\ x = 0
  /\ y = 0
  /\ image_ofs = 0
  /\ result = -1
  /\ log = << >>
  /\ prev = << >>
  /\ call = NoCall

(***************************************************************************)
(* render_scene                                                            *)
(***************************************************************************)
\* a caller enters render_scene with a buffer of image_sz bytes
RenderCall ==
  /\ pc = "idle"
  /\ \E c \in Cameras, sl \in Scenes, w \in 1..MaxWidth, h \in 1..MaxHeight,
        g \in GarbageBytes :
       \E sz \in ImageSizes(w, h) :
         /\ cam' = c
         /\ sphere_list' = sl
         /\ screen_width' = w
         /\ screen_height' = h
         /\ image_sz' = sz
         /\ image' = [i \in 0..(sz - 1) |-> g]
         /\ before' = [i \in 0..(sz - 1) |-> g]
         /\ given' = [cam |-> c, sphere_list |-> sl]
  /\ pc' = "clear"
  /\ UNCHANGED <<oob, x, y, image_ofs, result, log, prev, call>>
  /\ UNCHANGED <<alloc, output_render_cb, content, sink, edits>>

\* Clear, the memset running over the camera as well
Clear_ZeroesCamera ==
  /\ pc = "clear"
  /\ image' = [i \in DOMAIN image |-> 0]
  /\ cam' = [pos |-> cam.pos, fov |-> <<1, 0>>]
  /\ image_ofs' = 0
  /\ x' = 0
  /\ y' = 0
  /\ pc' = "loop"
  /\ UNCHANGED <<sphere_list, screen_width, screen_height, image_sz, before,
                 given, oob, result, log, prev, call>>
  /\ UNCHANGED <<alloc, output_render_cb, content, sink, edits>>

\* Clear without the memset
Clear_NoMemset ==
  /\ pc = "clear"
  /\ image_ofs' = 0
  /\ x' = 0
  /\ y' = 0
  /\ pc' = "loop"
  /\ UNCHANGED <<args, image, before, given, oob, result, log, prev, call>>
  /\ UNCHANGED <<alloc, output_render_cb, content, sink, edits>>

\* memset (image, 0, image_sz); image_ofs = 0; the loops start at y = 0, x = 0
Clear ==
  /\ pc = "clear"
  /\ image' = [i \in DOMAIN image |-> 0]
  /\ image_ofs' = 0
  /\ x' = 0
  /\ y' = 0
  /\ pc' = "loop"
  /\ UNCHANGED <<args, before, given, oob, result, log, prev, call>>
  /\ UNCHANGED <<alloc, output_render_cb, content, sink, edits>>

\* the image after image[image_ofs + k] = colour[k + 1], k = 0..2, for the
\* indices inside the buffer
Stored(img, ofs, colour) ==
  [i \in DOMAIN img |->
     IF i \in ofs..(ofs + 2) THEN ToByte(colour[i - ofs + 1]) ELSE img[i]]

\* the stores of the same three assignments that fall outside the buffer
Overrun(sz, ofs, colour) ==
  { <<i, ToByte(colour[i - ofs + 1])>> : i \in { j \in ofs..(ofs + 2) : j >= sz } }

\* Advance with an offset that does not move on at the end of a row
Advance_RowStuck ==
  /\ image_ofs' = IF x + 1 < screen_width THEN image_ofs + 3 ELSE image_ofs
  /\ x' = IF x + 1 < screen_width THEN x + 1 ELSE 0
  /\ y' = IF x + 1 < screen_width THEN y ELSE y + 1
  /\ UNCHANGED <<pc, result>>

\* Advance with a row that never ends
Advance_NoRowEnd ==
  /\ image_ofs' = image_ofs + 3
  /\ x' = IF x + 1 < screen_width THEN x + 1 ELSE 0
  /\ y' = y
  /\ UNCHANGED <<pc, result>>

\* the loop variables after x++ and, at the end of a row, y++
Advance ==
  /\ image_ofs' = image_ofs + 3
  /\ x' = IF x + 1 < screen_width THEN x + 1 ELSE 0
  /\ y' = IF x + 1 < screen_width THEN y ELSE y + 1
  /\ UNCHANGED <<pc, result>>

\* PixelStore with a test that asks for room for one pixel more
PixelStore_EarlyFault(dir, dists, cl) ==
  /\ log' = Append(log, [x |-> x, y |-> y, ofs |-> image_ofs, dir |-> dir,
                         dists |-> dists, closest |-> cl[1], min_dist |-> cl[2]])
  /\ IF cl[1] = 0
     THEN /\ Advance
          /\ UNCHANGED <<image, oob>>
     ELSE IF image_ofs + 3 >= image_sz
     THEN /\ pc' = "done"
          /\ result' = 1
          /\ UNCHANGED <<image, oob, x, y, image_ofs>>
     ELSE /\ image' = Stored(image, image_ofs, sphere_get_color(sphere_list[cl[1]]))
          /\ Advance
          /\ UNCHANGED oob

\* the second half of an iteration, the sphere loop having left
\* closest_sphere = cl[1] (0 for -1) and min_dist = cl[2]
PixelStore(dir, dists, cl) ==
  /\ log' = Append(log, [x |-> x, y |-> y, ofs |-> image_ofs, dir |-> dir,
                         dists |-> dists, closest |-> cl[1], min_dist |-> cl[2]])
  /\ IF cl[1] = 0
     THEN \* no sphere was hit: the pixel is left untouched
          /\ Advance
          /\ UNCHANGED <<image, oob>>
     ELSE IF image_ofs >= image_sz
     THEN \* return 1
          /\ pc' = "done"
          /\ result' = 1
          /\ UNCHANGED <<image, oob, x, y, image_ofs>>
     ELSE IF image_ofs + 2 < image_sz
     THEN /\ image' = Stored(image, image_ofs, sphere_get_color(sphere_list[cl[1]]))
          /\ Advance
          /\ UNCHANGED oob
     ELSE \* image_ofs < image_sz <= image_ofs + 2: a store past the end of
          \* the buffer, undefined behaviour: the bytes land in whatever
          \* follows the buffer, or the process is killed
          /\ image' = Stored(image, image_ofs, sphere_get_color(sphere_list[cl[1]]))
          /\ oob' = oob \cup Overrun(image_sz, image_ofs,
                                     sphere_get_color(sphere_list[cl[1]]))
          /\ \/ Advance
             \/ /\ pc' = "crashed"
                /\ UNCHANGED <<x, y, image_ofs, result>>

\* the sphere loop over the distances of the pixel's ray
PixelClosest(dir, dists) ==
  PixelStore(dir, dists, Closest(dists, 1, 0, MinDistInit))

\* the ray of the pixel starts at the camera and goes along dir
PixelRay(dir) ==
  PixelClosest(dir, Dists([origin |-> cam.pos, dir |-> dir], sphere_list))

\* Pixel with the camera's field of view in place of fov_x: with cam->fov = 0
\* both tangents are 0 and every ray points straight ahead
Pixel_CamFov ==
  /\ pc = "loop"
  /\ y < screen_height
  /\ PixelRay(IF cam.fov = fov_x
              THEN RayDir(x, y, screen_width, screen_height)
              ELSE vector_normal(Vec(Zero, Zero, FromInt(-1))))
  /\ UNCHANGED <<args, before, given, prev, call>>
  /\ UNCHANGED <<alloc, output_render_cb, content, sink, edits>>

\* one iteration of the inner loop: the pixel (x, y)
Pixel ==
  /\ pc = "loop"
  /\ y < screen_height
  /\ PixelRay(RayDir(x, y, screen_width, screen_height))
  /\ UNCHANGED <<args, before, given, prev, call>>
  /\ UNCHANGED <<alloc, output_render_cb, content, sink, edits>>

\* both loops have ended: return 0
Return ==
  /\ pc = "loop"
  /\ y >= screen_height
  /\ result' = 0
  /\ pc' = "done"
  /\ UNCHANGED <<args, image, before, given, oob, x, y, image_ofs, log, prev, call>>
  /\ UNCHANGED <<alloc, output_render_cb, content, sink, edits>>

\* the caller renders again with the same arguments but for the camera's
\* stored field of view, the buffer being as the first call left it or filled
\* anew
RenderAgain ==
  /\ pc = "done"
  /\ prev = << >>
  /\ prev' = << [image |-> image, result |-> result, cam |-> cam] >>
  /\ \E img \in {image} \cup { [i \in DOMAIN image |-> g] : g \in GarbageBytes \ {0} } :
       /\ image' = img
       /\ before' = img
  /\ \E f \in Fovs :
       /\ cam' = [cam EXCEPT !.fov = f]
       /\ given' = [cam |-> cam', sphere_list |-> sphere_list]
  /\ pc' = "clear"
  /\ result' = -1
  /\ log' = << >>
  /\ UNCHANGED <<sphere_list, screen_width, screen_height, image_sz, oob, x, y,
                 image_ofs, call>>
  /\ UNCHANGED <<alloc, output_render_cb, content, sink, edits>>

(***************************************************************************)
(* Direct calls of the library                                             *)
(***************************************************************************)
IntersectDo(sphere, ray) ==
  call' = [fn |-> "sphere_intersect", sphere |-> sphere, ray |-> ray,
           out |-> sphere_intersect(sphere, ray)]

\* sphere_intersect on a sphere and a ray of the caller's choice: the ray
\* points along a direction of CallDirs or exactly at the centre, the radius
\* is one of CallRadii or the float just above the distance to the centre
IntersectCall ==
  /\ pc = "idle"
  /\ \E cx \in CallCoords, cy \in CallCoords, cz \in CallCoords, o \in CallOrigins :
       \E rad \in CallRadii \cup { FNextUp(vector_length(vector_sub(IVec(cx, cy, cz), o))) },
          dir \in CallDirs \cup { vector_normal(vector_sub(IVec(cx, cy, cz), o)) } :
         IntersectDo([center |-> IVec(cx, cy, cz), radius |-> rad,
                      r |-> 0, g |-> 0, b |-> 0],
                     [origin |-> o, dir |-> dir])
  /\ pc' = "called"
  /\ UNCHANGED <<args, image, before, given, oob, x, y, image_ofs, result, log, prev>>
  /\ UNCHANGED <<alloc, output_render_cb, content, sink, edits>>

\* vector_normal on a vector of the caller's choice
NormalCall ==
  /\ pc = "idle"
  /\ \E vx \in NormalComps, vy \in NormalComps, vz \in NormalComps :
       call' = [fn |-> "vector_normal", v |-> Vec(vx, vy, vz),
                out |-> vector_normal(Vec(vx, vy, vz))]
  /\ pc' = "called"
  /\ UNCHANGED <<args, image, before, given, oob, x, y, image_ofs, result, log, prev>>
  /\ UNCHANGED <<alloc, output_render_cb, content, sink, edits>>

\* color_set: a component is assigned if the value given for it is above 0
color_set(obj, r, g, b) ==
  [ r |-> IF r > 0 THEN r ELSE obj.r,
    g |-> IF g > 0 THEN g ELSE obj.g,
    b |-> IF b > 0 THEN b ELSE obj.b ]

\* the colours an object may have, and the values color_set is given
ColorObjs == [r : {7, 200}, g : {7}, b : {7, 200}]
ColorArgs == {-1, 0, 1, 255}

\* color_set on an object and values of the caller's choice
ColorSetCall ==
  /\ pc = "idle"
  /\ \E obj \in ColorObjs, r \in ColorArgs, g \in ColorArgs, b \in ColorArgs :
       call' = [fn |-> "color_set", obj |-> obj, r |-> r, g |-> g, b |-> b,
                out |-> color_set(obj, r, g, b)]
  /\ pc' = "called"
  /\ UNCHANGED <<args, image, before, given, oob, x, y, image_ofs, result, log, prev>>
  /\ UNCHANGED <<alloc, output_render_cb, content, sink, edits>>

\* the default size of the output
DEFAULT_SCREEN_WIDTH == 640
DEFAULT_SCREEN_HEIGHT == 480

\* the pixels of the default-size image that are followed: every eighth
\* column and the last, on seven rows
ProbeXs == { 8 * i : i \in 0..79 } \cup {DEFAULT_SCREEN_WIDTH - 1}
ProbeYs == {0, 120, 200, 240, 280, 360, DEFAULT_SCREEN_HEIGHT - 1}
ProbeScenes == {SingleRed, DefaultScene}

\* what an iteration of the inner loop does for pixel (px, py) of a w x h
\* image: the offset it has reached, the sphere it finds and the bytes that
\* the buffer holds at the offset afterwards (the memset's zeros if no sphere
\* is hit)
ProbeOut(px, py, w, h, sl, dir, dists, cl) ==
  [fn |-> "render_pixel", x |-> px, y |-> py, width |-> w, height |-> h,
   sphere_list |-> sl, ofs |-> 3 * (py * w + px), dir |-> dir, dists |-> dists,
   closest |-> cl[1],
   bytes |-> IF cl[1] = 0 THEN <<0, 0, 0>>
             ELSE << ToByte(sphere_get_color(sl[cl[1]])[1]),
                     ToByte(sphere_get_color(sl[cl[1]])[2]),
                     ToByte(sphere_get_color(sl[cl[1]])[3]) >>]

ProbeClosest(px, py, w, h, sl, dir, dists) ==
  ProbeOut(px, py, w, h, sl, dir, dists, Closest(dists, 1, 0, MinDistInit))

ProbeRay(px, py, w, h, sl, dir) ==
  ProbeClosest(px, py, w, h, sl, dir,
               Dists([origin |-> IVec(0, 0, 0), dir |-> dir], sl))

\* render_scene at the default size, camera at the origin, followed at one
\* pixel of ProbeXs x ProbeYs
PixelProbe ==
  /\ pc = "idle"
  /\ \E px \in ProbeXs, py \in ProbeYs, sl \in ProbeScenes :
       call' = ProbeRay(px, py, DEFAULT_SCREEN_WIDTH, DEFAULT_SCREEN_HEIGHT, sl,
                        RayDir(px, py, DEFAULT_SCREEN_WIDTH, DEFAULT_SCREEN_HEIGHT))
  /\ pc' = "called"
  /\ UNCHANGED <<args, image, before, given, oob, x, y, image_ofs, result, log, prev>>
  /\ UNCHANGED <<alloc, output_render_cb, content, sink, edits>>

\* the "RGB to BGR" loop of tga_write: the first and third byte of each of
\* the width * height pixels change places, in the caller's buffer
RGBtoBGR(img, width, height) ==
  [i \in DOMAIN img |->
     IF i >= width * height * 3 THEN img[i]
     ELSE IF i % 3 = 0 THEN img[i + 2]
     ELSE IF i % 3 = 2 THEN img[i - 2]
     ELSE img[i]]

\* output_render with the callback output_ssil after a render that returned 0
\* into a block that holds the whole image: tga_write returns 1 when it
\* cannot open the file, else runs its loop over the buffer and writes it
tga_write ==
  /\ pc \in {"done", "written"}
  /\ result = 0
  /\ image_sz >= screen_width * screen_height * 3
  /\ \E ret \in {0, 1} :
       /\ image' = IF ret = 1 THEN image
                   ELSE RGBtoBGR(image, screen_width, screen_height)
       /\ call' = [fn |-> "tga_write", ret |-> ret,
                   rendered |-> IF pc = "done" THEN image ELSE call.rendered]
  /\ pc' = "written"
  /\ UNCHANGED <<args, before, given, oob, x, y, image_ofs, result, log, prev>>
  /\ UNCHANGED <<alloc, output_render_cb, content, sink, edits>>

Next ==
  \/ RenderCall \/ Clear \/ Pixel \/ Return \/ RenderAgain
  \/ IntersectCall \/ NormalCall \/ PixelProbe \/ ColorSetCall

Spec == Init /\ [][Next]_vars

(***************************************************************************)
(* Properties of render_scene                                              *)
(***************************************************************************)
AllZero(img) == \A i \in DOMAIN img : img[i] = 0

\* no pixel visited so far has hit a sphere
NoHitYet == \A k \in 1..Len(log) : log[k].closest = 0

\* the three bytes of the pixel at offset ofs
PixelAt(img, ofs) == <<img[ofs], img[ofs + 1], img[ofs + 2]>>

\* a sphere's colour as bytes
SphereBytes(sphere) == <<ToByte(sphere.r), ToByte(sphere.g), ToByte(sphere.b)>>

\* render_scene has returned 0 on a buffer that holds the whole image
Complete ==
  /\ pc = "done"
  /\ result = 0
  /\ image_sz >= screen_width * screen_height * 3

\* the spheres whose distance is positive
PositiveSet(dists) == { i \in DOMAIN dists : FLt(Zero, dists[i]) }

\* sphere i has a positive distance and no sphere a smaller positive one
Minimal(dists, i) ==
  /\ i \in PositiveSet(dists)
  /\ \A j \in PositiveSet(dists) : ~FLt(dists[j], dists[i])

\* C1: once the buffer is cleared and until a pixel hits a sphere, all
\* image_sz bytes are zero; and render_scene on an empty sphere list returns 0
\* and leaves all bytes zero, whatever the buffer held before.
C1_BackgroundZeroed ==
  /\ (pc = "loop" /\ NoHitYet) => AllZero(image)
  /\ (pc = "done" /\ sphere_list = << >>) => (result = 0 /\ AllZero(image))

\* an empty scene rendered into a buffer that held non-zero bytes
C1_Witness ==
  /\ pc = "done"
  /\ sphere_list = << >>
  /\ image_sz = screen_width * screen_height * 3
  /\ \A i \in DOMAIN before : before[i] # 0
  /\ result = 0
  /\ AllZero(image)

\* C2: in a completed render, every pixel whose ray got positive distances
\* from two or more spheres, one of them strictly the smallest, has the
\* colour of that sphere, in whatever order the spheres are listed.
C2_NearestHit ==
  Complete =>
    \A k \in 1..Len(log) : \A i \in DOMAIN log[k].dists :
      ( /\ Cardinality(PositiveSet(log[k].dists)) >= 2
        /\ Minimal(log[k].dists, i)
        /\ \A j \in PositiveSet(log[k].dists) \ {i} :
             FLt(log[k].dists[i], log[k].dists[j]) )
      => PixelAt(image, log[k].ofs) = SphereBytes(sphere_list[i])

\* C3: a call with a buffer shorter than width*height*3 bytes, in a scene
\* where every pixel visited hits a sphere, ends by returning a non-zero
\* result.
C3_ShortBufferFails ==
  ( /\ pc = "done"
    /\ image_sz < screen_width * screen_height * 3
    /\ \A k \in 1..Len(log) : log[k].closest # 0 )
  => result # 0

\* C4: in a completed render, every pixel whose ray got a positive distance
\* from some sphere holds the colour of a sphere of the list, and every other
\* pixel holds (0, 0, 0).
C4_HitColoured ==
  Complete =>
    \A k \in 1..Len(log) :
      IF PositiveSet(log[k].dists) # {}
      THEN \E i \in DOMAIN sphere_list :
             PixelAt(image, log[k].ofs) = SphereBytes(sphere_list[i])
      ELSE PixelAt(image, log[k].ofs) = <<0, 0, 0>>

\* C5: in a completed render, every pixel whose ray got the same smallest
\* positive distance from two or more spheres has the colour of the one
\* earliest in the list.
C5_TieLowestIndex ==
  Complete =>
    \A k \in 1..Len(log) : \A i \in DOMAIN log[k].dists :
      ( /\ Minimal(log[k].dists, i)
        /\ \E j \in DOMAIN log[k].dists : j > i /\ log[k].dists[j] = log[k].dists[i]
        /\ \A j \in DOMAIN log[k].dists : j < i => log[k].dists[j] # log[k].dists[i] )
      => PixelAt(image, log[k].ofs) = SphereBytes(sphere_list[i])

IsIntersectCall == call.fn = "sphere_intersect"
IsNormalCall == call.fn = "vector_normal"

\* S.center - R.origin of the call
CallOE == vector_sub(call.sphere.center, call.ray.origin)

VNeg(v) == Vec(FNeg(v.x), FNeg(v.y), FNeg(v.z))
FAbs(a) == <<Abs(a[1]), a[2]>>

\* a is b to within a sixteenth of b
Close(a, b) == ~FLt(FMul(<<1, -4>>, FAbs(b)), FAbs(FSub(a, b)))

\* C7: sphere_intersect returns 0 whenever dot(S.center - R.origin, R.dir) is
\* negative, whatever the radius, also when the line through R crosses S.
C7_BehindMisses ==
  (IsIntersectCall /\ FLt(vector_dot(CallOE, call.ray.dir), Zero))
  => call.out = Zero

\* a call with a negative dot product, on a sphere which the ray in the
\* opposite direction hits
C7_Witness ==
  /\ IsIntersectCall
  /\ FLt(vector_dot(CallOE, call.ray.dir), Zero)
  /\ FLt(Zero, sphere_intersect(call.sphere, [origin |-> call.ray.origin,
                                              dir    |-> VNeg(call.ray.dir)]))
  /\ call.out = Zero

\* C8: for a ray whose direction is the normalized vector from its origin to
\* the centre, the origin being farther from the centre than the radius,
\* sphere_intersect returns a positive value, distance(origin, centre) - radius
\* to within a sixteenth.
C8_CentreRay ==
  ( /\ IsIntersectCall
    /\ call.ray.dir = vector_normal(CallOE)
    /\ FLt(call.sphere.radius, vector_length(CallOE)) )
  => ( /\ FLt(Zero, call.out)
       /\ Close(call.out, FSub(vector_length(CallOE), call.sphere.radius)) )

\* C9: vector_normal returns the zero vector unchanged, and for every other
\* vector a vector of length 1, to within a sixteenth, no component of which
\* has changed its sign.
C9_UnitLength ==
  IsNormalCall =>
    IF call.v = Vec(Zero, Zero, Zero)
    THEN call.out = call.v
    ELSE /\ Close(vector_length(call.out), One)
         /\ Sgn(call.out.x[1]) = Sgn(call.v.x[1])
         /\ Sgn(call.out.y[1]) = Sgn(call.v.y[1])
         /\ Sgn(call.out.z[1]) = Sgn(call.v.z[1])

\* the origin is nearer to the sphere's centre than its radius
Inside(sphere, origin) ==
  FLt(vector_length(vector_sub(sphere.center, origin)), sphere.radius)

C12_SceneUnchanged ==
  /\ cam = given.cam
  /\ sphere_list = given.sphere_list

\* an aborted call on a scene with a sphere that was hit
C12_Witness ==
  /\ pc = "done"
  /\ result = 1
  /\ Len(sphere_list) >= 1
  /\ \E k \in 1..Len(log) : log[k].closest # 0
  /\ cam = given.cam
  /\ sphere_list = given.sphere_list

\* the second of two calls that differ in cam->fov only has returned
FovChanged ==
  /\ prev # << >>
  /\ pc = "done"
  /\ prev[1].cam.fov # cam.fov
  /\ prev[1].cam.pos = cam.pos

\* C13: two calls of render_scene whose cameras differ in the stored field of
\* view only, all other inputs being the same, leave the same bytes in the
\* buffer (and return the same value).
C13_FovIgnored ==
  FovChanged => (image = prev[1].image /\ result = prev[1].result)

\* the two calls have returned 0 on a full-size buffer that the caller filled
\* anew in between, with a pixel that shows a sphere and one that shows none
C13_Witness ==
  /\ FovChanged
  /\ result = 0
  /\ image_sz = 3 * screen_width * screen_height
  /\ \A i \in DOMAIN before : before[i] # 0
  /\ \E k \in 1..Len(log) : log[k].closest # 0
  /\ \E k \in 1..Len(log) : log[k].closest = 0
  /\ image = prev[1].image

IsProbe == call.fn = "render_pixel"

\* the sphere list of the probe is the single red sphere, at the default size
SingleRedProbe ==
  /\ IsProbe
  /\ call.sphere_list = SingleRed
  /\ call.width = 640 /\ call.height = 480

\* C14: with the camera at the origin and the one sphere at (0, 0, -600) of
\* radius 100 and colour (255, 0, 0), the 640x480 image has (255, 0, 0) at
\* pixel (320, 240) and (0, 0, 0) at pixel (0, 0).
C14_CentreRedCornerBlack ==
  SingleRedProbe =>
    /\ (call.x = 320 /\ call.y = 240) => call.bytes = <<255, 0, 0>>
    /\ (call.x = 0 /\ call.y = 0) => call.bytes = <<0, 0, 0>>

C14_Witness ==
  /\ SingleRedProbe
  /\ call.x = 320 /\ call.y = 240
  /\ call.ofs = 3 * (240 * 640 + 320)
  /\ call.closest = 1
  /\ call.bytes = <<255, 0, 0>>

\* bytes are the background if no sphere of sl has a positive distance, and
\* otherwise the colour of a sphere of sl with the smallest positive one
NearestOrBackground(sl, dists, bytes) ==
  IF PositiveSet(dists) = {}
  THEN bytes = <<0, 0, 0>>
  ELSE \E i \in DOMAIN sl : Minimal(dists, i) /\ bytes = SphereBytes(sl[i])

\* C15: in the scene of scene_init, every pixel rendered holds the background
\* or exactly the colour of the nearest sphere its ray hits: the pixels
\* followed at 640x480, and all pixels of the small images that lie inside
\* the buffer.
C15_DefaultSceneColours ==
  /\ (IsProbe /\ call.sphere_list = DefaultScene)
     => NearestOrBackground(DefaultScene, call.dists, call.bytes)
  /\ (pc = "done" /\ sphere_list = DefaultScene)
     => \A k \in 1..Len(log) :
          log[k].ofs + 2 < image_sz
          => NearestOrBackground(sphere_list, log[k].dists,
                                 PixelAt(image, log[k].ofs))

\* a pixel of the 640x480 image whose ray hits the red sphere and, behind it,
\* the green one
C15_Witness ==
  /\ IsProbe
  /\ call.sphere_list = DefaultScene
  /\ PositiveSet(call.dists) = {1, 2}
  /\ FLt(call.dists[1], call.dists[2])
  /\ call.closest = 1
  /\ call.bytes = <<255, 0, 0>>

(***************************************************************************)
(* Editing the scene: the CLI's sphere context, the XML file               *)
(***************************************************************************)
NUM_SPHERES == 3

\* the longest sequence of edits followed
MaxEdits == 2

\* what strtol makes of the tokens of a CLI command; a missing token leaves
\* param[i] as it was, which is any of these too
ParamInts == {-1, 300}
RadiusInts == {-5, 50}

\* the ids a <sphere> element may carry
XmlIds == {-1, 0, 2, 3, 4}

\* the attributes of a <data> element, each absent (<< >>) or present
XmlData ==
  [ xyz : {<< >>, <<10, 20, -30>>}, radius : {<< >>, <<-5>>},
    r : {<< >>, <<300>>}, g : {<< >>, <<-1>>}, b : {<< >>, <<128>>} ]

sphere_set_color(sphere, r, g, b) == [sphere EXCEPT !.r = r, !.g = g, !.b = b]

\* the sphere after the "if (prop)" assignments of parse_sphere
XmlApply(sphere, data) ==
  [ center |-> IF data.xyz = << >> THEN sphere.center
               ELSE IVec(data.xyz[1], data.xyz[2], data.xyz[3]),
    radius |-> IF data.radius = << >> THEN sphere.radius
               ELSE FromInt(data.radius[1]),
    r |-> IF data.r = << >> THEN sphere.r ELSE data.r[1],
    g |-> IF data.g = << >> THEN sphere.g ELSE data.g[1],
    b |-> IF data.b = << >> THEN sphere.b ELSE data.b[1] ]

\* the assignments of parse_sphere as <<id, field>> pairs
XmlStores(id, data) ==
  { <<id, f>> : f \in { g \in {"xyz", "radius", "r", "g", "b"} : data[g] # << >> } }

\* the scene after scene_init, no edit made
SceneInit ==
  /\ pc = "scene"
  /\ cam = [pos |-> IVec(0, 0, 0), fov |-> Zero]
  /\ sphere_list = DefaultScene
  /\ edits = << >>
  /\ oob = {}
  /\ screen_width = 1
  /\ screen_height = 1
  /\ image_sz = 0
  /\ image = [i \in {} |-> 0]
  /\ before = [i \in {} |-> 0]
  /\ given = [cam |-> cam, sphere_list |-> sphere_list]
  /\ alloc = -1
  /\ output_render_cb = "NULL"
  /\ content = "none"
  /\ sink = << >>
  /\ x = 0
  /\ y = 0
  /\ image_ofs = 0
  /\ result = -1
  /\ log = << >>
  /\ prev = << >>
  /\ call = NoCall

\* what the scene edits leave alone
SceneFrame ==
  UNCHANGED <<screen_width, screen_height, image_sz, image, before, given,
              alloc, output_render_cb, content, sink, x, y, image_ofs, result,
              log, prev>>

\* the ids typed after "sphere"
CliIds == {-1, 0, 1, 2, 3}

\* what an element of "int param[3]" may hold where the command line gave no
\* token for it: the array is never initialised, and a later command finds
\* in it what an earlier one in the same context left
Held == {0} \cup ParamInts

\* param after the loop over the tokens of a command line with n arguments:
\* the first n elements are the numbers typed, the others are never assigned
Params(n) ==
  {p \in [0..2 -> Held] : \A i \in 0..(n - 1) : p[i] \in ParamInts}

\* the CLI is at the "scene/sphere-id>" prompt
InSphere == call.fn = "cli_enter_sphere"

\* cli_enter_scene entering the sphere context for whatever id is not above
\* the number of spheres
CliSphere_UpToCount ==
  /\ pc = "scene"
  /\ call = NoCall
  /\ \E id \in CliIds :
       IF id >= 0 /\ id <= NUM_SPHERES
       THEN /\ call' = [fn |-> "cli_enter_sphere", id |-> id]
            /\ UNCHANGED edits
       ELSE /\ Len(edits) < MaxEdits
            /\ edits' = Append(edits, [cmd |-> "sphere", id |-> id,
                                       stored |-> FALSE, given |-> 1])
            /\ UNCHANGED call
  /\ UNCHANGED <<pc, oob, cam, sphere_list>>
  /\ SceneFrame

\* "sphere <ID>" at the "scene>" prompt
CliSphere ==
  /\ pc = "scene"
  /\ call = NoCall
  /\ \E id \in CliIds :
       IF id >= 0 /\ id < NUM_SPHERES
       THEN /\ call' = [fn |-> "cli_enter_sphere", id |-> id]
            /\ UNCHANGED edits
       ELSE \* "Invalid ID"
            /\ Len(edits) < MaxEdits
            /\ edits' = Append(edits, [cmd |-> "sphere", id |-> id,
                                       stored |-> FALSE, given |-> 1])
            /\ UNCHANGED call
  /\ UNCHANGED <<pc, oob, cam, sphere_list>>
  /\ SceneFrame

\* "camera" at the "scene>" prompt
CliCamera ==
  /\ pc = "scene"
  /\ call = NoCall
  /\ call' = [fn |-> "cli_enter_camera"]
  /\ UNCHANGED <<pc, oob, cam, sphere_list, edits>>
  /\ SceneFrame

\* "end" in the sphere or the camera context
CliEnd ==
  /\ pc = "scene"
  /\ call # NoCall
  /\ call' = NoCall
  /\ UNCHANGED <<pc, oob, cam, sphere_list, edits>>
  /\ SceneFrame

\* "position" with n of <X> <Y> <Z> in the camera context
CliPosition ==
  /\ pc = "scene"
  /\ call.fn = "cli_enter_camera"
  /\ Len(edits) < MaxEdits
  /\ \E n \in 0..3 : \E param \in Params(n) :
       /\ cam' = [cam EXCEPT !.pos = IVec(param[0], param[1], param[2])]
       /\ edits' = Append(edits, [cmd |-> "position", id |-> -1,
                                  stored |-> TRUE, given |-> n])
  /\ UNCHANGED <<pc, oob, sphere_list, call>>
  /\ SceneFrame

\* "center" with n of <X> <Y> <Z> in the context of sphere id
CliCenter ==
  /\ pc = "scene"
  /\ InSphere
  /\ Len(edits) < MaxEdits
  /\ \E n \in 0..3 : \E param \in Params(n) :
       /\ sphere_list' = [sphere_list EXCEPT ![call.id + 1].center =
                            IVec(param[0], param[1], param[2])]
       /\ edits' = Append(edits, [cmd |-> "center", id |-> call.id,
                                  stored |-> TRUE, given |-> n])
  /\ UNCHANGED <<pc, oob, cam, call>>
  /\ SceneFrame

\* "radius <R>" in the context of sphere id
CliRadius ==
  /\ pc = "scene"
  /\ InSphere
  /\ Len(edits) < MaxEdits
  /\ \E n \in RadiusInts :
       /\ sphere_list' = [sphere_list EXCEPT ![call.id + 1].radius = FromInt(n)]
       /\ edits' = Append(edits, [cmd |-> "radius", id |-> call.id,
                                  stored |-> TRUE, given |-> 1])
  /\ UNCHANGED <<pc, oob, cam, call>>
  /\ SceneFrame

\* "color" with n of <R> <G> <B> in the context of sphere id
CliColor ==
  /\ pc = "scene"
  /\ InSphere
  /\ Len(edits) < MaxEdits
  /\ \E n \in 0..3 : \E param \in Params(n) :
       /\ sphere_list' = [sphere_list EXCEPT
                            ![call.id + 1] =
                               sphere_set_color(@, param[0], param[1], param[2])]
       /\ edits' = Append(edits, [cmd |-> "color", id |-> call.id,
                                  stored |-> TRUE, given |-> n])
  /\ UNCHANGED <<pc, oob, cam, call>>
  /\ SceneFrame

\* parse_sphere on a <sphere id="..."> element with one <data> child
ParseSphere ==
  /\ pc = "scene"
  /\ call = NoCall
  /\ Len(edits) < MaxEdits
  /\ \E id \in XmlIds, data \in XmlData :
       IF id < 0 \/ id > NUM_SPHERES
       THEN \* "Invalid sphere ID": return
            /\ edits' = Append(edits, [cmd |-> "xml", id |-> id, stored |-> FALSE])
            /\ UNCHANGED <<pc, sphere_list, oob>>
       ELSE IF id < NUM_SPHERES
       THEN /\ sphere_list' = [sphere_list EXCEPT ![id + 1] = XmlApply(@, data)]
            /\ edits' = Append(edits, [cmd |-> "xml", id |-> id, stored |-> TRUE])
            /\ UNCHANGED <<pc, oob>>
       ELSE \* id = NUM_SPHERES: the assignments go to sphere[3], past the end
            \* of the array, undefined behaviour: they land in whatever
            \* follows the scene, or the process is killed
            /\ oob' = oob \cup XmlStores(id, data)
            /\ edits' = Append(edits, [cmd |-> "xml", id |-> id,
                                       stored |-> XmlStores(id, data) # {}])
            /\ pc' \in IF XmlStores(id, data) = {} THEN {"scene"}
                        ELSE {"scene", "crashed"}
            /\ UNCHANGED sphere_list
  /\ UNCHANGED <<cam, call>>
  /\ SceneFrame

SceneNext ==
  \/ CliSphere \/ CliCamera \/ CliEnd
  \/ CliPosition \/ CliCenter \/ CliRadius \/ CliColor
  \/ ParseSphere

SceneSpec == SceneInit /\ [][SceneNext]_vars

\* C16: after any sequence of scene edits every sphere's colour components
\* lie in 0..255 and its radius is not negative.
C16_SphereDataInRange ==
  pc = "scene" =>
    \A i \in DOMAIN sphere_list :
      /\ sphere_list[i].r \in 0..255
      /\ sphere_list[i].g \in 0..255
      /\ sphere_list[i].b \in 0..255
      /\ ~FLt(sphere_list[i].radius, Zero)

\* C17: parse_sphere stores for the ids 0, 1 and 2 only: for every other id
\* it makes no assignment, and nothing outside sphere[0..2] is ever written.
C17_XmlIdsChecked ==
  /\ \A k \in 1..Len(edits) :
       (edits[k].cmd = "xml" /\ edits[k].id \notin 0..(NUM_SPHERES - 1))
       => ~edits[k].stored
  /\ \A st \in oob : st[1] \in 0..(NUM_SPHERES - 1)

IsColorSet == call.fn = "color_set"

\* the component after color_set is the value given, or the old one if the
\* value given is -1
SetUnlessMinusOne(old, given_value, new) ==
  new = IF given_value = -1 THEN old ELSE given_value

\* C18: color_set leaves a component alone if the value given for it is -1
\* and sets it to the value otherwise, 0 included.
C18_ColorSetUnlessMinusOne ==
  IsColorSet =>
    /\ SetUnlessMinusOne(call.obj.r, call.r, call.out.r)
    /\ SetUnlessMinusOne(call.obj.g, call.g, call.out.g)
    /\ SetUnlessMinusOne(call.obj.b, call.b, call.out.b)

(***************************************************************************)
(* The output module: image size and image buffer                          *)
(***************************************************************************)
BPP == 3
MaxInt == 2147483647

\* a + b in a 32-bit int
Add32(a, b) ==
  IF a > 0 /\ b > MaxInt - a THEN (a - MaxInt - 1) + (b - MaxInt - 1)
  ELSE IF a < 0 /\ b < (-MaxInt - 1) - a THEN (a + MaxInt + 1) + (b + MaxInt + 1)
  ELSE a + b

Double32(a) == Add32(a, a)

RECURSIVE MulNat32(_, _)
\* a * b in a 32-bit int, b >= 0
MulNat32(a, b) ==
  IF b = 0 THEN 0
  ELSE Add32(Double32(MulNat32(a, b \div 2)), IF b % 2 = 1 THEN a ELSE 0)

\* a * b in a 32-bit int
Mul32(a, b) == IF b >= 0 THEN MulNat32(a, b) ELSE MulNat32(Add32(0 - a, 0), 0 - b)

\* w * h * BPP as the code computes it
ImageBytes(w, h) == Mul32(Mul32(w, h), BPP)

\* what malloc may return for a size given as an int: NULL (-1) for a
\* negative one, which is a size beyond any memory, and NULL or a block of
\* that size otherwise
Malloc(n) == IF n < 0 THEN {-1} ELSE {-1, n}

output_get_image_size == ImageBytes(screen_width, screen_height)
output_get_image_width == screen_width
output_get_image_height == screen_height

\* the widths and heights asked for
SetWidths == {-1, 0, 1, 2, 3, 320, 1431655766}
SetHeights == {-1, 0, 1, 2, 3, 240}

\* the module before the first call
OutputInit ==
  /\ pc = "output"
  /\ screen_width = DEFAULT_SCREEN_WIDTH
  /\ screen_height = DEFAULT_SCREEN_HEIGHT
  /\ alloc = -1
  /\ output_render_cb = "NULL"
  /\ content = "none"
  /\ sink = << >>
  /\ result = -1
  /\ cam = [pos |-> IVec(0, 0, 0), fov |-> Zero]
  /\ sphere_list = DefaultScene
  /\ edits = << >>
  /\ oob = {}
  /\ image_sz = 0
  /\ image = [i \in {} |-> 0]
  /\ before = [i \in {} |-> 0]
  /\ given = [cam |-> cam, sphere_list |-> sphere_list]
  /\ x = 0
  /\ y = 0
  /\ image_ofs = 0
  /\ log = << >>
  /\ prev = << >>
  /\ call = NoCall

\* what the output module leaves alone
OutputFrame ==
  UNCHANGED <<pc, cam, sphere_list, edits, oob, image_sz, image, before, given,
              x, y, image_ofs, log, prev>>

\* the block after malloc returned m: none, or one that nothing has written
Fresh(m) == IF m = -1 THEN "none" ELSE "uninitialised"

output_render_setup ==
  /\ pc = "output"
  /\ \E cb \in {"NULL", "cb"} :
       /\ IF cb = "NULL"
          THEN /\ result' = 1
               /\ UNCHANGED <<output_render_cb, alloc, content>>
          ELSE /\ output_render_cb' = cb
               /\ \E m \in Malloc(ImageBytes(screen_width, screen_height)) :
                    /\ alloc' = m
                    /\ content' = Fresh(m)
                    /\ result' = IF m = -1 THEN 1 ELSE 0
       /\ call' = [fn |-> "output_render_setup", cb |-> cb,
                   was |-> output_render_cb]
  /\ UNCHANGED <<screen_width, screen_height, sink>>
  /\ OutputFrame

\* output_set_image_width allocating for the width it replaces
output_set_image_width_OldSize ==
  /\ pc = "output"
  /\ \E w \in SetWidths :
       \E m \in Malloc(ImageBytes(screen_width, screen_height)) :
         /\ alloc' = m
         /\ content' = Fresh(m)
         /\ result' = IF m = -1 THEN 1 ELSE 0
         /\ screen_width' = IF m = -1 THEN screen_width ELSE w
  /\ call' = [fn |-> "output_set_image_width"]
  /\ UNCHANGED <<screen_height, output_render_cb, sink>>
  /\ OutputFrame

output_set_image_width ==
  /\ pc = "output"
  /\ \E w \in SetWidths :
       \E m \in Malloc(ImageBytes(w, screen_height)) :
         /\ alloc' = m
         /\ content' = Fresh(m)
         /\ result' = IF m = -1 THEN 1 ELSE 0
         /\ screen_width' = IF m = -1 THEN screen_width ELSE w
  /\ call' = [fn |-> "output_set_image_width"]
  /\ UNCHANGED <<screen_height, output_render_cb, sink>>
  /\ OutputFrame

\* output_set_image_height storing h before it knows that malloc succeeded
output_set_image_height_StoreFirst ==
  /\ pc = "output"
  /\ \E h \in SetHeights :
       \E m \in Malloc(ImageBytes(screen_width, h)) :
         /\ alloc' = m
         /\ content' = Fresh(m)
         /\ result' = IF m = -1 THEN 1 ELSE 0
         /\ screen_height' = h
  /\ call' = [fn |-> "output_set_image_height"]
  /\ UNCHANGED <<screen_width, output_render_cb, sink>>
  /\ OutputFrame

output_set_image_height ==
  /\ pc = "output"
  /\ \E h \in SetHeights :
       \E m \in Malloc(ImageBytes(screen_width, h)) :
         /\ alloc' = m
         /\ content' = Fresh(m)
         /\ result' = IF m = -1 THEN 1 ELSE 0
         /\ screen_height' = IF m = -1 THEN screen_height ELSE h
  /\ call' = [fn |-> "output_set_image_height"]
  /\ UNCHANGED <<screen_width, output_render_cb, sink>>
  /\ OutputFrame

\* the longest sequence of images handed to the callback that is followed
MaxOutputs == 2

\* the buffer after tga_write has exchanged red and blue in place
Swapped(c) ==
  IF c = "rendered" THEN "swapped" ELSE IF c = "swapped" THEN "rendered" ELSE c

\* output_render: the callback registered is output_ssil, which hands the
\* buffer to tga_write and returns 0; tga_write exchanges red and blue in the
\* buffer unless it cannot open its file
OutputRenderDo(refused) ==
  /\ pc = "output"
  /\ Len(sink) < MaxOutputs
  /\ IF refused
     THEN /\ result' = 1
          /\ UNCHANGED <<sink, content>>
     ELSE /\ sink' = Append(sink, content)
          /\ content' \in {content, Swapped(content)}
          /\ result' = 0
  /\ call' = [fn |-> "output_render", cb |-> output_render_cb, image |-> alloc,
              sunk |-> Len(sink') - Len(sink)]
  /\ UNCHANGED <<screen_width, screen_height, alloc, output_render_cb>>
  /\ OutputFrame

\* output_render without its test of the image pointer
output_render_NoImageTest == OutputRenderDo(output_render_cb = "NULL")

output_render == OutputRenderDo(output_render_cb = "NULL" \/ alloc = -1)

\* the width * height * 3 of the stored size does not fit an int
Wrapped(w, h) == w # 0 /\ h # 0 /\ (w > MaxInt \div h \/ w * h > MaxInt \div BPP)

\* the CLI's "render": render_scene on what the getters of the output module
\* hand out. With no block the memset writes through NULL; with a block of
\* width * height * 3 bytes render_scene returns 0 after the last pixel; with
\* a product that wrapped the block is shorter than the image and the call
\* returns 1 or is cut short
CliRender ==
  /\ pc = "output"
  /\ IF alloc = -1
     THEN /\ pc' = "crashed"
          /\ UNCHANGED <<result, content>>
     ELSE IF Wrapped(screen_width, screen_height)
     THEN /\ content' = "partial"
          /\ \/ pc' = pc /\ result' = 1
             \/ pc' = "crashed" /\ UNCHANGED result
     ELSE /\ content' = "rendered"
          /\ result' = 0
          /\ UNCHANGED pc
  /\ call' = [fn |-> "render_scene"]
  /\ UNCHANGED <<screen_width, screen_height, alloc, output_render_cb, sink>>
  /\ UNCHANGED <<cam, sphere_list, edits, oob, image_sz, image, before, given,
                 x, y, image_ofs, log, prev>>

OutputNext ==
  \/ output_render_setup \/ output_set_image_width \/ output_set_image_height
  \/ output_render \/ CliRender

OutputSpec == OutputInit /\ [][OutputNext]_vars

\* the last call was one that sets up or resizes the image
Resized ==
  call.fn \in {"output_render_setup", "output_set_image_width",
               "output_set_image_height"}

C20_WritesInBounds ==
  /\ \A st \in oob : st[1] < image_sz
  /\ \A k \in 1..Len(log) :
       (log[k].closest # 0 /\ log[k].ofs < image_sz) => log[k].ofs + 2 < image_sz

\* the buffer of the call has room for the whole image
RoomForAll == image_sz >= screen_width * screen_height * 3

\* C21: with image_sz >= width * height * 3, render_scene is never cut short
\* and reports no fault: it returns 0, having visited all width * height
\* pixels, whatever the scene.
C21_NoFaultWithRoom ==
  RoomForAll =>
    /\ pc # "crashed"
    /\ oob = {}
    /\ pc = "done" => (result = 0 /\ Len(log) = screen_width * screen_height)

\* a call that has returned on a buffer of exactly width * height * 3 bytes,
\* the last pixel showing a sphere
C21_Witness ==
  /\ pc = "done"
  /\ image_sz = screen_width * screen_height * 3
  /\ screen_width = 2 /\ screen_height = 2
  /\ result = 0
  /\ Len(log) = 4
  /\ log[4].closest # 0

(***************************************************************************)
(* One call of render_scene, each statement followed by the next           *)
(***************************************************************************)
RenderNext == RenderCall \/ Clear \/ Pixel \/ Return

\* a call is in progress
Running == pc \in {"clear", "loop"}

\* the call in progress does not stall: while it runs, its next statement is
\* executed (in a running state Clear, Pixel or Return can always be taken)
RenderSpec ==
  /\ Init
  /\ [][RenderNext]_vars
  /\ ([]<><<RenderNext>>_vars \/ <>[](~Running))

\* return 0 after the last pixel
ReturnedAfterLast ==
  /\ result = 0
  /\ Len(log) = screen_width * screen_height

\* pixel k showed a sphere and failed the offset test
Faulted(k) == log[k].closest # 0 /\ log[k].ofs >= image_sz

\* return 1 at the first pixel that failed the offset test
ReturnedAtFault ==
  /\ result = 1
  /\ Len(log) >= 1
  /\ Faulted(Len(log))
  /\ \A j \in 1..(Len(log) - 1) : ~Faulted(j)

\* at most width * height iterations, each with one sphere_intersect per
\* sphere, and a return of one of the two kinds
BoundedWork ==
  /\ Len(log) <= screen_width * screen_height
  /\ \A k \in 1..Len(log) : Len(log[k].dists) = Len(sphere_list)
  /\ pc = "done" => (ReturnedAfterLast \/ ReturnedAtFault)

\* C22: every call of render_scene ends, after at most width * height pixel
\* iterations of num_spheres intersection tests each, and it returns either
\* 0 after the last pixel or 1 at the first pixel that fails the offset
\* test; the only call that does not return is one that the store past the
\* end of the buffer has cut short.
C22_Terminates ==
  /\ []BoundedWork
  /\ (pc = "clear") ~> (pc = "done" \/ pc = "crashed")

\* a call that returned 1 at its fourth and last pixel, after a pixel that
\* was stored
C22_Witness ==
  /\ pc = "done"
  /\ ReturnedAtFault
  /\ Len(log) = 4
  /\ \E j \in 1..3 : log[j].closest # 0
  /\ Len(sphere_list) = 2
  /\ screen_width * screen_height = 4

\* c, v and d2 of the sphere_intersect call
CallC == vector_length(CallOE)
CallV == vector_dot(CallOE, call.ray.dir)
CallD2 ==
  FAdd(FSub(FMul(call.sphere.radius, call.sphere.radius), FMul(CallC, CallC)),
       FMul(CallV, CallV))

C24_SinkGetsRenderedOnly ==
  \A i \in 1..Len(sink) : sink[i] \in {"rendered", "swapped"}

\* one call of render_scene and the outputs of its image that follow
TgaNext == RenderCall \/ Clear \/ Pixel \/ Return \/ tga_write

TgaSpec == Init /\ [][TgaNext]_vars

\* C25: after a render that returned 0, however often output_render has run
\* tga_write on the buffer, the buffer is byte for byte what render_scene
\* left in it.
C25_OutputKeepsBuffer ==
  (pc = "written" /\ call.fn = "tga_write") => image = call.rendered

IsOutputRender == call.fn = "output_render"
IsSetupNull == call.fn = "output_render_setup" /\ call.cb = "NULL"

\* C26: output_render with no callback registered or no image block returns
\* non-zero and calls no callback; output_render_setup(NULL) returns non-zero
\* and leaves the registered callback as it was.
C26_RefusesWithoutCallbackOrImage ==
  /\ (IsOutputRender /\ (call.cb = "NULL" \/ call.image = -1)) =>
       (result # 0 /\ call.sunk = 0)
  /\ IsSetupNull => (result # 0 /\ output_render_cb = call.was)

\* output_render refused for want of a block although a callback is
\* registered, after an earlier output had gone through
C26_Witness ==
  /\ IsOutputRender
  /\ call.cb = "cb"
  /\ call.image = -1
  /\ result = 1
  /\ sink = <<"rendered">>

\* C27: a step of output_set_image_width or output_set_image_height whose
\* malloc fails returns non-zero and leaves width and height as they were,
\* with image NULL; and output_render called while image is NULL returns
\* non-zero and hands nothing to the callback.
C27_FailedResizeKeepsSize ==
  [][/\ (/\ call'.fn \in {"output_set_image_width", "output_set_image_height"}
         /\ alloc' = -1) =>
          /\ result' # 0
          /\ screen_width' = screen_width
          /\ screen_height' = screen_height
     /\ (call'.fn = "output_render" /\ alloc = -1) =>
          (result' # 0 /\ sink' = sink /\ alloc' = -1)]_vars

\* output_render refused after a resize had succeeded and a later one failed
C27_Witness ==
  /\ IsOutputRender
  /\ output_render_cb = "cb"
  /\ alloc = -1
  /\ content = "none"
  /\ result = 1
  /\ screen_width = 2
  /\ screen_height = 3
  /\ Len(sink) = 1

\* ---------------------------------------------------------------------------
\* The CLI's scene context (SceneSpec)

\* the edit that the step has appended
Appended(cmds) ==
  /\ Len(edits') > Len(edits)
  /\ edits'[Len(edits')].cmd \in cmds

InArray(id) == id \in 0..(NUM_SPHERES - 1)

\* C28: the CLI is in the sphere context only for an id of 0 .. 2, so every
\* "center", "radius" and "color" works on an element of the sphere array;
\* a "sphere <ID>" that is refused has an id outside 0 .. 2 and leaves the
\* spheres, the camera and the context as they were.
C28_CliIdsChecked ==
  [][/\ call'.fn = "cli_enter_sphere" => InArray(call'.id)
     /\ Appended({"center", "radius", "color"}) =>
          (InArray(edits'[Len(edits')].id) /\ edits'[Len(edits')].id = call.id)
     /\ Appended({"sphere"}) =>
          /\ ~InArray(edits'[Len(edits')].id)
          /\ sphere_list' = sphere_list
          /\ cam' = cam
          /\ call' = NoCall]_vars

\* "sphere 3" refused, then the last sphere selected and its centre set
C28_Witness ==
  /\ pc = "scene"
  /\ InSphere
  /\ call.id = NUM_SPHERES - 1
  /\ Len(edits) = 2
  /\ edits[1] = [cmd |-> "sphere", id |-> NUM_SPHERES, stored |-> FALSE, given |-> 1]
  /\ edits[2].cmd = "center"
  /\ edits[2].given = 3
  /\ sphere_list[NUM_SPHERES].center = IVec(300, -1, 300)
  /\ sphere_list[1] = DefaultScene[1]

\* C29: a "center", "color" or "position" command with fewer than three
\* arguments leaves every sphere and the camera as they were.
C29_ShortCommandIgnored ==
  [][(/\ Appended({"center", "color", "position"})
      /\ edits'[Len(edits')].given < 3) =>
       (sphere_list' = sphere_list /\ cam' = cam)]_vars

=============================================================================
